---- MODULE Spec2Model ----
(***************************************************************************)
(* A model of the BadgeKit API client (badgekit/api.py): the path builder  *)
(* _make_path, the pluralizer _api_plural, the error classifier            *)
(* raise_error and the operations of BadgeKitAPI; and of the request       *)
(* signer JWTAuth (badgekit/jwt_auth.py) that the client signs with.       *)
(*                                                                         *)
(* Python strings are TLA+ strings (Len, \o and SubSeq apply to them).     *)
(* Python values that may be None, a string or a bool are tagged records:  *)
(* [t |-> "None"], [t |-> "str", v |-> s], [t |-> "bool", v |-> repr].     *)
(* Keyword arguments are sequences of <<name, value>> pairs in the order   *)
(* the caller wrote them.                                                  *)
(***************************************************************************)
EXTENDS Integers, Sequences, FiniteSets, TLC

VARIABLES baseurl, defaults, auth, now, outgoing, call, resp, sent, outcome

vars == <<baseurl, defaults, auth, now, outgoing, call, resp, sent, outcome>>

(* ---------------------------- bounds ----------------------------------- *)

\* longest keyword-argument list handed to _make_path when it is checked alone
MaxKw == 2

\* most calls made on one client
MaxCalls == 2

\* time.time() when the program starts, in seconds
Epoch == 1400000000

(* ---------------------------- values ----------------------------------- *)

None == [t |-> "None"]

Str(s) == [t |-> "str", v |-> s]

\* a bool holds its repr, so that the v of every value is a string
Bool(b) == [t |-> "bool", v |-> IF b THEN "True" ELSE "False"]

IsTrue(x) == x.t = "bool" /\ x.v = "True"

IsFalse(x) == x.t = "bool" /\ x.v = "False"

IsNone(x) == x.t = "None"

IsStr(x) == x.t = "str"

IsBool(x) == x.t = "bool"

(* ---------------------------- strings ---------------------------------- *)

startswith(s, c) == Len(s) > 0 /\ SubSeq(s, 1, 1) = c

endswith(s, c) == Len(s) > 0 /\ SubSeq(s, Len(s), Len(s)) = c

\* the positions of s that hold the character c
Positions(s, c) == {i \in 1..Len(s) : SubSeq(s, i, i) = c}

Contains(s, c) == Positions(s, c) # {}

Min(S) == CHOOSE x \in S : \A y \in S : x <= y

Max(S) == CHOOSE x \in S : \A y \in S : x >= y

\* s.split(c): the pieces of s between the occurrences of the character c
RECURSIVE split(_, _)
split(s, c) ==
    IF ~Contains(s, c) THEN <<s>>
    ELSE LET i == Min(Positions(s, c))
         IN  <<SubSeq(s, 1, i - 1)>> \o split(SubSeq(s, i + 1, Len(s)), c)

(* ------------------------- keyword arguments --------------------------- *)

Keys(kw) == {kw[i][1] : i \in 1..Len(kw)}

\* dict.get(field): the value stored under field, None when there is none
kwargs_get(kw, field) ==
    IF field \in Keys(kw)
    THEN kw[CHOOSE i \in 1..Len(kw) : kw[i][1] = field][2]
    ELSE None

\* dict_update as it would be if a name already in d kept its value
RECURSIVE dict_update_keep(_, _)
dict_update_keep(d, kw) ==
    IF kw = <<>> THEN d
    ELSE LET k == kw[1][1]
             d1 == IF k \in Keys(d) THEN d ELSE Append(d, kw[1])
         IN  dict_update_keep(d1, Tail(kw))

\* dict(d, **kw): a copy of d updated with every pair of kw
RECURSIVE dict_update(_, _)
dict_update(d, kw) ==
    IF kw = <<>> THEN d
    ELSE LET k == kw[1][1]
             d1 == IF k \in Keys(d)
                   THEN [i \in 1..Len(d) |-> IF d[i][1] = k THEN kw[1] ELSE d[i]]
                   ELSE Append(d, kw[1])
         IN  dict_update(d1, Tail(kw))

(* --------------------------- path builder ------------------------------ *)

_path_order == <<"system", "issuer", "program", "badge", "instance",
                 "application", "evidence", "comment", "code">>

_possible_query_params == <<"archived">>

IrregularNouns == {"evidence", "claim", "codes/random"}

\* _api_plural as it would be with 'claim' left out of the irregular nouns
_api_plural_without_claim(noun) ==
    IF noun \notin {"evidence", "codes/random"} THEN noun \o "s" ELSE noun

_api_plural(noun) ==
    IF noun \notin IrregularNouns THEN noun \o "s" ELSE noun

\* posixpath.join(*parts)
RECURSIVE join_from(_, _)
join_from(path, p) ==
    IF p = <<>> THEN path
    ELSE LET b == Head(p)
             next == IF startswith(b, "/") THEN b
                     ELSE IF path = "" \/ endswith(path, "/") THEN path \o b
                     ELSE path \o "/" \o b
         IN  join_from(next, Tail(p))

posixpath_join(parts) == join_from(Head(parts), Tail(parts))

\* urllib.quote_plus on the characters the model uses
quote_char(c) ==
    CASE c = " " -> "+"
      [] c = "/" -> "%2F"
      [] c = "?" -> "%3F"
      [] OTHER   -> c

RECURSIVE quote_plus(_)
quote_plus(s) ==
    IF s = "" THEN ""
    ELSE quote_char(SubSeq(s, 1, 1)) \o quote_plus(SubSeq(s, 2, Len(s)))

\* urlencode(params) for a list of <<name, string>> pairs
RECURSIVE urlencode(_)
urlencode(params) ==
    IF params = <<>> THEN ""
    ELSE quote_plus(params[1][1]) \o "=" \o quote_plus(params[1][2])
         \o (IF Len(params) > 1 THEN "&" \o urlencode(Tail(params)) ELSE "")

\* path_parts as it would be if the loop ran over the caller's arguments in
\* the order they were written instead of over _path_order
RECURSIVE path_parts_caller_order(_, _)
path_parts_caller_order(kwargs, i) ==
    IF i > Len(kwargs) THEN <<>>
    ELSE LET field == kwargs[i][1]
             value == kwargs[i][2]
             known == \E j \in 1..Len(_path_order) : _path_order[j] = field
         IN  IF ~known \/ IsNone(value)
             THEN path_parts_caller_order(kwargs, i + 1)
             ELSE <<_api_plural(field), value.v>>
                  \o path_parts_caller_order(kwargs, i + 1)

\* the first loop of _make_path, from position i of _path_order on
RECURSIVE path_parts(_, _)
path_parts(kwargs, i) ==
    IF i > Len(_path_order) THEN <<>>
    ELSE LET field == _path_order[i]
             value == kwargs_get(kwargs, field)
         IN  IF IsNone(value) THEN path_parts(kwargs, i + 1)
             ELSE <<_api_plural(field), value.v>> \o path_parts(kwargs, i + 1)

\* query_params as it would be if the loop skipped every falsy value
\* ("if not value: continue") instead of only None
RECURSIVE query_params_skip_falsy(_, _)
query_params_skip_falsy(kwargs, i) ==
    IF i > Len(_possible_query_params) THEN <<>>
    ELSE LET param == _possible_query_params[i]
             value == kwargs_get(kwargs, param)
         IN  IF IsNone(value) \/ IsFalse(value)
                \/ (IsStr(value) /\ value.v = "")
             THEN query_params_skip_falsy(kwargs, i + 1)
             ELSE LET s == IF IsBool(value) THEN "true" ELSE value.v
                  IN  <<<<param, s>>>> \o query_params_skip_falsy(kwargs, i + 1)

\* the second loop of _make_path, from position i of _possible_query_params on
RECURSIVE query_params(_, _)
query_params(kwargs, i) ==
    IF i > Len(_possible_query_params) THEN <<>>
    ELSE LET param == _possible_query_params[i]
             value == kwargs_get(kwargs, param)
         IN  IF IsNone(value) THEN query_params(kwargs, i + 1)
             ELSE LET s == IF IsTrue(value) THEN "true"
                           ELSE IF IsFalse(value) THEN "false"
                           ELSE value.v
                  IN  <<<<param, s>>>> \o query_params(kwargs, i + 1)

\* _make_path(*args, **kwargs); posixpath.join() of no parts is a TypeError
_make_path(args, kwargs) ==
    LET parts == path_parts(kwargs, 1) \o args
    IN  IF parts = <<>> THEN [ok |-> FALSE, exc |-> "TypeError"]
        ELSE LET path == posixpath_join(parts)
                 params == query_params(kwargs, 1)
             IN  [ok |-> TRUE,
                  v  |-> IF params # <<>>
                         THEN path \o "?" \o urlencode(params)
                         ELSE path]

(* ------------------------------ inputs --------------------------------- *)

Slugs == {"a", "b"}

\* what a caller may give for a hierarchy segment
SegmentValues == {None, Str("")} \cup {Str(s) : s \in Slugs}

\* what a caller may give for the archived flag
FlagValues == {None, Bool(TRUE), Bool(FALSE), Str("a b")}

ArgNames == {_path_order[i] : i \in 1..Len(_path_order)}
            \cup {_possible_query_params[i] : i \in 1..Len(_possible_query_params)}

ValuesFor(name) == IF name = "archived" THEN FlagValues ELSE SegmentValues

\* keyword-argument lists of at most n pairs, no name twice
RECURSIVE KwLists(_)
KwLists(n) ==
    IF n = 0 THEN {<<>>}
    ELSE LET shorter == KwLists(n - 1)
         IN  shorter \cup
             UNION {{Append(kw, <<name, val>>) : val \in ValuesFor(name)} :
                    <<kw, name>> \in {p \in shorter \X ArgNames :
                                        /\ Len(p[1]) = n - 1
                                        /\ p[2] \notin Keys(p[1])}}

ExtraArgs == {<<>>, <<"badges">>, <<"evidence">>}

NoCall == [op |-> "none", kind |-> "", data |-> "", required |-> "",
           args |-> <<>>, kwargs |-> <<>>]

NoResp == [transport |-> "none", status |-> 0, text |-> ""]

NoOutcome == [k |-> "none"]

\* no signer and no request: the state of the parts a check leaves out
NoAuth == [secret |-> "", alg |-> "", generators |-> <<>>]

NoRequest == [method |-> "", url |-> "", body |-> None, headers |-> <<>>]

(* ------------------- _make_path checked on its own --------------------- *)

InitPath ==
    /\ baseurl = ""
    /\ defaults = <<>>
    /\ auth = NoAuth
    /\ now = Epoch
    /\ outgoing = NoRequest
    /\ \E args \in ExtraArgs, kwargs \in KwLists(MaxKw) :
          call = [NoCall EXCEPT !.op = "_make_path", !.args = args,
                                !.kwargs = kwargs]
    /\ resp = NoResp
    /\ sent = <<>>
    /\ outcome = NoOutcome

MakePath ==
    /\ call.op = "_make_path"
    /\ outcome.k = "none"
    /\ outcome' = LET r == _make_path(call.args, call.kwargs)
                  IN  IF r.ok THEN [k |-> "return", v |-> Str(r.v)]
                      ELSE [k |-> "raise", exc |-> r.exc]
    /\ UNCHANGED <<baseurl, defaults, auth, now, outgoing, call, resp, sent>>

NextPath == MakePath

SpecPath == InitPath /\ [][NextPath]_vars

(* ------------------------------ urljoin -------------------------------- *)

\* the length of the "scheme://host" prefix of an absolute URL
origin_len(base) ==
    LET colon == Min(Positions(base, ":"))
        later == {i \in Positions(base, "/") : i > colon + 2}
    IN  IF later = {} THEN Len(base) ELSE Min(later) - 1

\* urljoin(base, url) for a relative url without dot segments
urljoin(base, url) ==
    LET n == origin_len(base)
        origin == SubSeq(base, 1, n)
        bpath == SubSeq(base, n + 1, Len(base))
        dir == IF bpath = "" THEN "/"
               ELSE SubSeq(bpath, 1, Max(Positions(bpath, "/")))
    IN  IF url = "" THEN base
        ELSE IF startswith(url, "/") THEN origin \o url
        ELSE origin \o dir \o url

(* ------------------------------- JSON ---------------------------------- *)

Dict(d) == [t |-> "dict", v |-> d]

List(l) == [t |-> "list", v |-> l]

IsDict(x) == x.t = "dict"

HasKey(x, k) == IsDict(x) /\ k \in DOMAIN x.v

InvalidText == "{invalid json"

\* bodies the server may send for the root document
RootTexts ==
    {InvalidText,
     "{\"app\": \"BadgeKit API\", \"version\": \"0.2.9\"}",
     "{\"app\": \"BadgeKit API\", \"version\": \"0.3\"}",
     "{\"app\": \"BadgeKit API\", \"version\": \"1\"}",
     "{\"app\": \"Other\"}",
     "[]"}

\* bodies the server may send for a resource or a collection
ResourceTexts ==
    {InvalidText,
     "{\"badges\": [\"x\"]}",
     "{\"code\": \"ResourceConflict\", \"message\": \"exists\"}",
     "{\"code\": \"ResourceNotFound\", \"message\": \"gone\"}",
     "{\"code\": \"ValidationError\", \"message\": \"bad\"}",
     "{\"code\": \"ResourceNotFound\"}",
     "{\"code\": \"Teapot\", \"message\": \"short\"}",
     "{\"message\": \"no code\"}",
     "[]"}

\* json.loads(text): the decoded value, or ok = FALSE for the ValueError
json_loads(text) ==
    CASE text = "{\"app\": \"BadgeKit API\", \"version\": \"0.2.9\"}" ->
            [ok |-> TRUE, v |-> Dict([app |-> "BadgeKit API", version |-> "0.2.9"])]
      [] text = "{\"app\": \"BadgeKit API\", \"version\": \"0.3\"}" ->
            [ok |-> TRUE, v |-> Dict([app |-> "BadgeKit API", version |-> "0.3"])]
      [] text = "{\"app\": \"BadgeKit API\", \"version\": \"1\"}" ->
            [ok |-> TRUE, v |-> Dict([app |-> "BadgeKit API", version |-> "1"])]
      [] text = "{\"app\": \"Other\"}" ->
            [ok |-> TRUE, v |-> Dict([app |-> "Other"])]
      [] text = "{\"badges\": [\"x\"]}" ->
            [ok |-> TRUE, v |-> Dict([badges |-> "[\"x\"]"])]
      [] text = "{\"code\": \"ResourceConflict\", \"message\": \"exists\"}" ->
            [ok |-> TRUE, v |-> Dict([code |-> "ResourceConflict", message |-> "exists"])]
      [] text = "{\"code\": \"ResourceNotFound\", \"message\": \"gone\"}" ->
            [ok |-> TRUE, v |-> Dict([code |-> "ResourceNotFound", message |-> "gone"])]
      [] text = "{\"code\": \"ValidationError\", \"message\": \"bad\"}" ->
            [ok |-> TRUE, v |-> Dict([code |-> "ValidationError", message |-> "bad"])]
      [] text = "{\"code\": \"ResourceNotFound\"}" ->
            [ok |-> TRUE, v |-> Dict([code |-> "ResourceNotFound"])]
      [] text = "{\"code\": \"Teapot\", \"message\": \"short\"}" ->
            [ok |-> TRUE, v |-> Dict([code |-> "Teapot", message |-> "short"])]
      [] text = "{\"message\": \"no code\"}" ->
            [ok |-> TRUE, v |-> Dict([message |-> "no code"])]
      [] text = "[]" ->
            [ok |-> TRUE, v |-> List(<<>>)]
      [] OTHER -> [ok |-> FALSE]

(* --------------------------- error classifier -------------------------- *)

\* the keys of the errors table
errors == {"ResourceNotFound", "ResourceConflict", "ValidationError"}

Raise(exc, msg) == [k |-> "raise", exc |-> exc, msg |-> msg]

Return(v) == [k |-> "return", v |-> v]

\* raise_error as it would be without the test for 'message'
raise_error_without_message_test(resp_obj, request) ==
    IF /\ HasKey(resp_obj, "code")
       /\ resp_obj.v["code"] \in errors
    THEN [k |-> "raise", exc |-> resp_obj.v["code"], msg |-> "",
          info |-> resp_obj, request |-> request]
    ELSE [k |-> "raise", exc |-> "APIError",
          msg |-> "Problem with %s %s: %s",
          fmt |-> <<request.method, request.url, resp_obj>>]

\* raise_error(resp_obj, request): the exception it raises
raise_error(resp_obj, request) ==
    IF /\ HasKey(resp_obj, "code")
       /\ resp_obj.v["code"] \in errors
       /\ HasKey(resp_obj, "message")
    THEN [k |-> "raise", exc |-> resp_obj.v["code"], msg |-> "",
          info |-> resp_obj, request |-> request]
    ELSE [k |-> "raise", exc |-> "APIError",
          msg |-> "Problem with %s %s: %s",
          fmt |-> <<request.method, request.url, resp_obj>>]

\* _json_loads as it would be without the try/except around json.loads
_json_loads_uncaught(text) ==
    LET d == json_loads(text)
    IN  IF d.ok THEN Return(d.v)
        ELSE Raise("ValueError", "No JSON object could be decoded")

\* BadgeKitAPI._json_loads(text)
_json_loads(text) ==
    LET d == json_loads(text)
    IN  IF d.ok THEN Return(d.v)
        ELSE Raise("APIError", "Invalid JSON in BadgeKit response")

(* ---------------------------- StrictVersion ---------------------------- *)

Digits == <<"0", "1", "2", "3", "4", "5", "6", "7", "8", "9">>

IsDigit(c) == \E d \in 1..Len(Digits) : Digits[d] = c

AllDigits(s) == Len(s) > 0 /\ \A i \in 1..Len(s) : IsDigit(SubSeq(s, i, i))

\* int(s) for a string of digits
RECURSIVE to_int(_)
to_int(s) ==
    IF s = "" THEN 0
    ELSE LET c == SubSeq(s, Len(s), Len(s))
         IN  10 * to_int(SubSeq(s, 1, Len(s) - 1))
             + (CHOOSE d \in 1..Len(Digits) : Digits[d] = c) - 1

\* lexicographic order on two integer tuples of the same length
RECURSIVE tuple_less(_, _)
tuple_less(x, y) ==
    IF x = <<>> THEN FALSE
    ELSE Head(x) < Head(y) \/ (Head(x) = Head(y) /\ tuple_less(Tail(x), Tail(y)))

\* distutils.version.StrictVersion(s): major.minor[.patch][{a|b}N];
\* ok = FALSE stands for ValueError("invalid version number")
StrictVersion(s) ==
    LET letters == Positions(s, "a") \cup Positions(s, "b")
        p == IF letters = {} THEN Len(s) + 1 ELSE Min(letters)
        numeric == SubSeq(s, 1, p - 1)
        tag == SubSeq(s, p + 1, Len(s))
        comps == split(numeric, ".")
        valid == /\ Len(comps) \in {2, 3}
                 /\ \A i \in 1..Len(comps) : AllDigits(comps[i])
                 /\ letters # {} => AllDigits(tag)
    IN  IF ~valid THEN [ok |-> FALSE]
        ELSE [ok |-> TRUE,
              version |-> <<to_int(comps[1]), to_int(comps[2]),
                            IF Len(comps) = 3 THEN to_int(comps[3]) ELSE 0>>,
              prerelease |-> IF letters = {} THEN <<>>
                             ELSE <<IF SubSeq(s, p, p) = "a" THEN 1 ELSE 2,
                                    to_int(tag)>>]

\* StrictVersion.__lt__ as it would be with "<=" written for "<"
version_le(x, y) ==
    \/ x.version = y.version
    \/ tuple_less(x.version, y.version)

\* StrictVersion.__lt__: the version tuples decide; when they are equal a
\* pre-release is older than the release and pre-releases compare by tag
version_lt(x, y) ==
    IF x.version # y.version THEN tuple_less(x.version, y.version)
    ELSE /\ x.prerelease # <<>>
         /\ (y.prerelease = <<>> \/ tuple_less(x.prerelease, y.prerelease))

(* ------------------------------ the signer ----------------------------- *)

\* a registered generator: a constant value or a callable of the request
Const(value) == [callable |-> "", value |-> value, secs |-> 0]

Callable(name) == [callable |-> name, value |-> None, secs |-> 0]

\* the lambda that JWTAuth.expire(secs) registers
ExpireLambda(secs) == [callable |-> "expire", value |-> None, secs |-> secs]

callable(gen) == gen.callable # ""

\* str(n) for a natural number
RECURSIVE to_str(_)
to_str(n) ==
    IF n < 10 THEN Digits[n + 1]
    ELSE to_str(n \div 10) \o Digits[(n % 10) + 1]

\* PreparedRequest.path_url: the path, '/' when it is empty, and the query
path_url(url) ==
    LET p == SubSeq(url, origin_len(url) + 1, Len(url))
    IN  IF p = "" \/ startswith(p, "?") THEN "/" \o p ELSE p

\* hashlib.sha256(body).hexdigest(), kept symbolic
sha256_hexdigest(body) == "sha256(" \o body \o ")"

Value(v) == [ok |-> TRUE, v |-> v]

Exception(exc) == [ok |-> FALSE, exc |-> exc]

payload_method(req) == Value(Str(req.method))

\* payload_path as it would be if it signed the path without the query
payload_path_without_query(req) ==
    Value(Str(Head(split(path_url(req.url), "?"))))

payload_path(req) == Value(Str(path_url(req.url)))

\* payload_body(req); hashing the body None of a request without one is a
\* TypeError
payload_body(req) ==
    IF req.method \in {"POST", "PUT"}
    THEN IF IsNone(req.body) THEN Exception("TypeError")
         ELSE Value(Dict([hash |-> sha256_hexdigest(req.body.v),
                          alg  |-> "sha256"]))
    ELSE Value(None)

\* gen(request) for a callable generator, at time clock
apply(gen, req, clock) ==
    CASE gen.callable = "payload_method" -> payload_method(req)
      [] gen.callable = "payload_path"   -> payload_path(req)
      [] gen.callable = "payload_body"   -> payload_body(req)
      [] gen.callable = "expire"         -> Value(Str(to_str(clock + gen.secs)))

\* bool(value)
truthy(value) ==
    CASE IsNone(value) -> FALSE
      [] IsStr(value)  -> value.v # ""
      [] IsBool(value) -> IsTrue(value)
      [] IsDict(value) -> DOMAIN value.v # {}

\* the value of one registered field for the request
evaluate(gen, req, clock) ==
    IF callable(gen) THEN apply(gen, req, clock) ELSE Value(gen.value)

\* _generate as it would be with "if value is not None" for "if value"
_generate_not_none(generators, request, clock) ==
    LET values == [f \in DOMAIN generators |->
                      evaluate(generators[f], request, clock)]
    IN  IF \E f \in DOMAIN generators : ~values[f].ok
        THEN Exception("TypeError")
        ELSE Value([f \in {g \in DOMAIN generators : ~IsNone(values[g].v)}
                       |-> values[f].v])

\* the loop of _generate over the evaluated fields: the payload, a mapping
\* from the names of the fields whose value is truthy to those values, or
\* the exception a generator raised
payload_of(values) ==
    IF \E f \in DOMAIN values : ~values[f].ok
    THEN Exception("TypeError")
    ELSE Value([f \in {g \in DOMAIN values : truthy(values[g].v)}
                   |-> values[f].v])

\* JWTAuth._generate(request)
_generate(generators, request, clock) ==
    payload_of([f \in DOMAIN generators |->
                   evaluate(generators[f], request, clock)])

\* jws.utils.encode(obj): base64url of the JSON text of obj, kept symbolic
jws_encode(obj) == [base64url |-> [json |-> obj]]

\* jws.utils.decode(segment)
jws_decode(segment) == segment.base64url.json

\* jws.sign(header, claim, key): the MAC of the two encoded segments under
\* key, kept symbolic
jws_sign(header, claim, key) ==
    [mac |-> header.alg, key |-> key,
     input |-> <<jws_encode(header), jws_encode(claim)>>]

\* to_jwt as it would be if it signed under an empty key instead of key
to_jwt_empty_key(claim, algo, key) ==
    LET header == [typ |-> "JWT", alg |-> algo]
    IN  <<jws_encode(header), jws_encode(claim), jws_sign(header, claim, "")>>

\* to_jwt(claim, algo, key): the three segments that '.' joins
to_jwt(claim, algo, key) ==
    LET header == [typ |-> "JWT", alg |-> algo]
    IN  <<jws_encode(header), jws_encode(claim), jws_sign(header, claim, key)>>

\* from_jwt(jwt, key) of the tests: the claims when the signature verifies
\* under key
from_jwt(jwt, key) ==
    LET header == jws_decode(jwt[1])
        claim == jws_decode(jwt[2])
    IN  IF jwt[3] = jws_sign(header, claim, key) THEN Value(claim)
        ELSE Exception("SignatureError")

\* the value of the Authorization header: 'JWT token="%s"' % token
AuthorizationValue(token) == [format |-> "JWT token=\"%s\"", token |-> token]

\* the headers with name set to value
SetHeader(headers, name, value) ==
    [h \in DOMAIN headers \cup {name} |->
        IF h = name THEN value ELSE headers[h]]

\* JWTAuth.__call__ as it would be if it returned a fresh request holding
\* only the method, the URL and the new header
JWTAuth_call_fresh(signer, request, clock) ==
    LET payload == _generate(signer.generators, request, clock)
    IN  IF ~payload.ok THEN payload
        ELSE Value([method |-> request.method, url |-> request.url,
                    body |-> None,
                    headers |-> SetHeader(<<>>, "Authorization",
                        AuthorizationValue(
                            to_jwt(payload.v, signer.alg, signer.secret)))])

\* the request with its Authorization header set to the token of payload
with_token(signer, request, payload) ==
    IF ~payload.ok THEN payload
    ELSE Value([request EXCEPT !.headers =
            SetHeader(request.headers, "Authorization",
                AuthorizationValue(
                    to_jwt(payload.v, signer.alg, signer.secret)))])

\* JWTAuth.__call__(request): the request with its Authorization header set
JWTAuth_call(signer, request, clock) ==
    with_token(signer, request, _generate(signer.generators, request, clock))

\* JWTAuth(secret, alg): a signer with no field registered
JWTAuth(secret, alg) == [secret |-> secret, alg |-> alg, generators |-> <<>>]

\* JWTAuth.add_field(name, generator)
add_field(signer, name, generator) ==
    [signer EXCEPT !.generators =
        [f \in DOMAIN signer.generators \cup {name} |->
            IF f = name THEN generator ELSE signer.generators[f]]]

\* JWTAuth.expire(secs)
expire(signer, secs) == add_field(signer, "exp", ExpireLambda(secs))

\* the signer after the registrations of fields, in order
RECURSIVE add_fields(_, _)
add_fields(signer, fields) ==
    IF fields = <<>> THEN signer
    ELSE add_fields(add_field(signer, fields[1][1], fields[1][2]), Tail(fields))

(* the signer checked alone: a configured signer signs one request *)

Secrets == {"secr3t", "other"}

\* registrations a signer may be given, in the order they are made: the
\* client's five and a constant that is falsy
Fields ==
    << <<"key", Const(Str("master"))>>,
       <<"note", Const(Str(""))>>,
       <<"exp", ExpireLambda(30)>>,
       <<"path", Callable("payload_path")>>,
       <<"method", Callable("payload_method")>>,
       <<"body", Callable("payload_body")>> >>

\* the registrations of Fields whose index is in S, in order
RECURSIVE Chosen(_)
Chosen(S) ==
    IF S = {} THEN <<>>
    ELSE <<Fields[Min(S)]>> \o Chosen(S \ {Min(S)})

Signers ==
    {add_fields(JWTAuth(secret, "HS256"), Chosen(S)) :
        secret \in Secrets, S \in SUBSET (1 .. Len(Fields))}

RequestUrls ==
    {"http://example.com",
     "http://example.com/systems/a/badges?archived=true",
     "http://example.com/systems/a/badges?archived=false"}

\* the headers requests gives a prepared request before auth is applied
DefaultHeaders == [Accept |-> Str("*/*")]

UnsignedRequests ==
    {[method |-> m, url |-> u, body |-> b, headers |-> DefaultHeaders] :
        m \in {"GET", "DELETE"}, u \in RequestUrls, b \in {None}}
    \cup
    {[method |-> m, url |-> u, body |-> b, headers |-> DefaultHeaders] :
        m \in {"POST", "PUT"}, u \in RequestUrls,
        b \in {None, Str("a=b")}}

InitSign ==
    /\ baseurl = ""
    /\ defaults = <<>>
    /\ auth \in Signers
    /\ now = Epoch
    /\ outgoing \in UnsignedRequests
    /\ call = [NoCall EXCEPT !.op = "__call__"]
    /\ resp = NoResp
    /\ sent = <<>>
    /\ outcome = NoOutcome

\* auth(request): requests applies the signer to the prepared request
Sign ==
    /\ call.op = "__call__"
    /\ outcome.k = "none"
    /\ LET r == JWTAuth_call(auth, outgoing, now)
       IN  IF r.ok
           THEN /\ outgoing' = r.v
                /\ outcome' = [k |-> "return"]
           ELSE /\ outgoing' = outgoing
                /\ outcome' = [k |-> "raise", exc |-> r.exc]
    /\ UNCHANGED <<baseurl, defaults, auth, now, call, resp, sent>>

NextSign == Sign

SpecSign == InitSign /\ [][NextSign]_vars

(* ------------------------------ the client ----------------------------- *)

BaseUrls == {"http://example.com", "http://example.com/api/"}

\* the defaults argument of the constructor
DefaultsArgs == {<<>>,
                 <<<<"system", Str("a")>>>>,
                 <<<<"system", Str("a")>>, <<"badge", Str("b")>>>>}

Kinds == {"badge", "evidence", "claim", "codes/random"}

\* keyword arguments callers give to list, get and create
CallKwargs == {<<>>,
               <<<<"system", Str("b")>>>>,
               <<<<"issuer", Str("b")>>>>,
               <<<<"badge", Str("a")>>, <<"system", Str("b")>>>>,
               <<<<"system", None>>>>,
               <<<<"system", Str("a")>>, <<"archived", Bool(TRUE)>>>>,
               <<<<"system", Str("a")>>, <<"archived", Bool(FALSE)>>>>}

RequiredVersions == {"0.3.0", "0.2", "0.2.2", "0.2.9", "0.3a1"}

Statuses == {200, 201, 404}

TransportFailures == {"ConnectionError", "Timeout"}

ResponsesWith(texts) ==
    {[transport |-> f, status |-> 0, text |-> ""] : f \in TransportFailures}
    \cup {[transport |-> "ok", status |-> st, text |-> tx] :
            st \in Statuses, tx \in texts}

\* the answer of a healthy server to a collection request
Healthy(status) ==
    [transport |-> "ok", status |-> status, text |-> "{\"badges\": [\"x\"]}"]

\* the calls of list that are explored, <<kind, kwargs, response>>: every
\* kind and argument list against a healthy server, and one call against
\* every answer a server may give
CollectionCalls ==
    (Kinds \X CallKwargs \X {Healthy(200)})
    \cup ({"badge"} \X {<<<<"system", Str("b")>>>>} \X ResponsesWith(ResourceTexts))

\* the calls of get that are explored, <<kwargs, response>>
ObjectCalls ==
    (CallKwargs \X {Healthy(200)})
    \cup ({<<<<"system", Str("b")>>>>} \X ResponsesWith(ResourceTexts))

\* the calls of create that are explored, <<kind, data, kwargs, response>>:
\* as for list with some data, and one call with no data at all
CreateCalls ==
    (Kinds \X {"slug=s"} \X CallKwargs \X {Healthy(201)})
    \cup ({"badge"} \X {"slug=s"} \X {<<<<"system", Str("b")>>>>}
             \X ResponsesWith(ResourceTexts))
    \cup ({"badge"} \X {""} \X {<<<<"system", Str("b")>>>>} \X {Healthy(201)})

\* the calls of require_server_version that are explored, <<required_version,
\* response>>: every requirement against every body of a 200 answer, and one
\* requirement against every answer a server may give
VersionCalls ==
    (RequiredVersions
        \X {[transport |-> "ok", status |-> 200, text |-> tx] : tx \in RootTexts})
    \cup ({"0.3.0"} \X ResponsesWith(RootTexts))

Request(method, path, body) ==
    [method |-> method, url |-> urljoin(baseurl, path), body |-> body,
     headers |-> DefaultHeaders]

\* the request as requests prepares it: built, then signed by self.auth
Prepare(method, path, body) ==
    JWTAuth_call(auth, Request(method, path, body), now)

\* the body requests encodes from data: None when data is empty
encode_body(data) == IF data = "" THEN None ELSE Str(data)

\* a call is made: time passes, and nothing of the client is assigned
Called ==
    /\ now < Epoch + MaxCalls
    /\ now' = now + 1
    /\ UNCHANGED <<baseurl, defaults, auth, outgoing>>

ClientSecrets == {"secr3t"}

\* BadgeKitAPI.__init__(baseurl, secret, key, defaults)
Init ==
    /\ baseurl \in BaseUrls
    /\ \E d \in DefaultsArgs : defaults = IF d # <<>> THEN d ELSE <<>>
    /\ \E secret \in ClientSecrets, key \in {"master"} :
          auth = add_fields(expire(add_field(JWTAuth(secret, "HS256"),
                                             "key", Const(Str(key))), 30),
                            << <<"path", Callable("payload_path")>>,
                               <<"method", Callable("payload_method")>>,
                               <<"body", Callable("payload_body")>> >>)
    /\ now = Epoch
    /\ outgoing = NoRequest
    /\ call = NoCall
    /\ resp = NoResp
    /\ sent = <<>>
    /\ outcome = NoOutcome

\* Send as it would be if every status below 400 counted as a success
Send_below_400(prepared, r, expected) ==
    IF ~prepared.ok
    THEN /\ sent' = <<>>
         /\ resp' = NoResp
         /\ outcome' = Raise(prepared.exc, "")
    ELSE /\ sent' = <<prepared.v>>
         /\ resp' = r
         /\ outcome' =
              IF r.transport # "ok" THEN Raise(r.transport, "")
              ELSE LET resp_obj == _json_loads(r.text)
                   IN  IF resp_obj.k = "raise" THEN resp_obj
                       ELSE IF r.status >= 400
                            THEN raise_error(resp_obj.v, prepared.v)
                            ELSE resp_obj

\* Send as it would be if a request that met a transport failure were
\* sent a second time
Send_with_retry(prepared, r, expected) ==
    IF ~prepared.ok
    THEN /\ sent' = <<>>
         /\ resp' = NoResp
         /\ outcome' = Raise(prepared.exc, "")
    ELSE /\ sent' = IF r.transport # "ok" THEN <<prepared.v, prepared.v>>
                    ELSE <<prepared.v>>
         /\ resp' = r
         /\ outcome' =
              IF r.transport # "ok" THEN Raise(r.transport, "")
              ELSE LET resp_obj == _json_loads(r.text)
                   IN  IF resp_obj.k = "raise" THEN resp_obj
                       ELSE IF r.status # expected
                            THEN raise_error(resp_obj.v, prepared.v)
                            ELSE resp_obj

\* what requests.get and requests.post do with the prepared request, and
\* what list, get and create do with the answer: the request is sent once
\* unless signing it failed, the body decoded and the status compared with
\* the expected one
Send(prepared, r, expected) ==
    IF ~prepared.ok
    THEN /\ sent' = <<>>
         /\ resp' = NoResp
         /\ outcome' = Raise(prepared.exc, "")
    ELSE /\ sent' = <<prepared.v>>
         /\ resp' = r
         /\ outcome' =
              IF r.transport # "ok" THEN Raise(r.transport, "")
              ELSE LET resp_obj == _json_loads(r.text)
                   IN  IF resp_obj.k = "raise" THEN resp_obj
                       ELSE IF r.status # expected
                            THEN raise_error(resp_obj.v, prepared.v)
                            ELSE resp_obj

\* what list, get and create do once the path is built
Exchange(method, p, body, r, expected) ==
    IF ~p.ok
    THEN /\ sent' = <<>>
         /\ resp' = NoResp
         /\ outcome' = Raise(p.exc, "")
    ELSE Send(Prepare(method, p.v, body), r, expected)

\* BadgeKitAPI.list(kind, **kwargs)
ListObjects ==
    Called /\ \E <<kind, kwargs, r>> \in CollectionCalls :
        LET kind_plural == _api_plural(kind)
            path_args == dict_update(defaults, kwargs)
            path == _make_path(<<kind_plural>>, path_args)
        IN  /\ call' = [NoCall EXCEPT !.op = "list", !.kind = kind,
                                      !.kwargs = kwargs]
            /\ Exchange("GET", path, None, r, 200)

\* get as it would be if it stored the merged arguments as the defaults
GetObject_keeps_args ==
    /\ now < Epoch + MaxCalls
    /\ now' = now + 1
    /\ \E <<kwargs, r>> \in ObjectCalls :
        LET path_args == dict_update(defaults, kwargs)
            path == _make_path(<<>>, path_args)
        IN  /\ call' = [NoCall EXCEPT !.op = "get", !.kwargs = kwargs]
            /\ Exchange("GET", path, None, r, 200)
            /\ defaults' = path_args
    /\ UNCHANGED <<baseurl, auth, outgoing>>

\* BadgeKitAPI.get(**kwargs)
GetObject ==
    Called /\ \E <<kwargs, r>> \in ObjectCalls :
        LET path_args == dict_update(defaults, kwargs)
            path == _make_path(<<>>, path_args)
        IN  /\ call' = [NoCall EXCEPT !.op = "get", !.kwargs = kwargs]
            /\ Exchange("GET", path, None, r, 200)

\* BadgeKitAPI.create(kind, data, **kwargs)
CreateObject ==
    Called /\ \E <<kind, data, kwargs, r>> \in CreateCalls :
        LET path_args == dict_update(defaults, kwargs)
            path == _make_path(<<_api_plural(kind)>>, path_args)
        IN  /\ call' = [NoCall EXCEPT !.op = "create", !.kind = kind,
                                      !.data = data, !.kwargs = kwargs]
            /\ Exchange("POST", path, encode_body(data), r, 201)

\* the result of ping() as it would be without the except clause
ping_uncaught(r) ==
    LET resp_dict == _json_loads(r.text)
    IN  IF r.transport # "ok" THEN Raise(r.transport, "")
        ELSE IF resp_dict.k = "raise" THEN resp_dict
        ELSE IF r.status # 200 THEN Return(Bool(FALSE))
        ELSE IF ~IsDict(resp_dict.v) THEN Raise("TypeError", "")
        ELSE IF ~HasKey(resp_dict.v, "app") THEN Raise("KeyError", "app")
        ELSE Return(Bool(resp_dict.v.v["app"] = "BadgeKit API"))

\* the result of BadgeKitAPI.ping() when the server answers r
ping(r) ==
    LET resp_dict == _json_loads(r.text)
    IN  IF r.transport = "ConnectionError" THEN Return(Bool(FALSE))
        ELSE IF r.transport # "ok" THEN Raise(r.transport, "")
        ELSE IF resp_dict.k = "raise" THEN resp_dict
        ELSE IF r.status # 200 THEN Return(Bool(FALSE))
        ELSE IF ~IsDict(resp_dict.v) THEN Raise("TypeError", "")
        ELSE IF ~HasKey(resp_dict.v, "app") THEN Raise("KeyError", "app")
        ELSE Return(Bool(resp_dict.v.v["app"] = "BadgeKit API"))

\* BadgeKitAPI.ping()
Ping ==
    Called /\ \E r \in ResponsesWith(RootTexts) :
        /\ call' = [NoCall EXCEPT !.op = "ping"]
        /\ sent' = <<Prepare("GET", "/", None).v>>
        /\ resp' = r
        /\ outcome' = ping(r)

\* the result of BadgeKitAPI.server_version() when the server answers r
server_version(r) ==
    LET resp_dict == _json_loads(r.text)
    IN  IF r.transport # "ok" THEN Raise(r.transport, "")
        ELSE IF resp_dict.k = "raise" THEN resp_dict
        ELSE IF ~IsDict(resp_dict.v) THEN Raise("TypeError", "")
        ELSE IF ~HasKey(resp_dict.v, "version") THEN Raise("KeyError", "version")
        ELSE Return(Str(resp_dict.v.v["version"]))

\* BadgeKitAPI.server_version()
ServerVersion ==
    Called /\ \E r \in ResponsesWith(RootTexts) :
        /\ call' = [NoCall EXCEPT !.op = "server_version"]
        /\ sent' = <<Prepare("GET", "/", None).v>>
        /\ resp' = r
        /\ outcome' = server_version(r)

\* BadgeKitAPI.require_server_version(required_version)
RequireServerVersion ==
    Called /\ \E <<required_version, r>> \in VersionCalls :
        LET version == server_version(r)
        IN  /\ call' = [NoCall EXCEPT !.op = "require_server_version",
                                      !.required = required_version]
            /\ sent' = <<Prepare("GET", "/", None).v>>
            /\ resp' = r
            /\ outcome' =
                 IF version.k = "raise" THEN version
                 ELSE LET server == StrictVersion(version.v.v)
                          required == StrictVersion(required_version)
                      IN  IF ~server.ok \/ ~required.ok
                          THEN Raise("ValueError", "invalid version number")
                          ELSE IF version_lt(server, required)
                          THEN Raise("ValueError",
                                     "Version {required_version} or greater of BadgeKit-API server required, but {server_url} is only version {version}.")
                          ELSE Return(None)

\* update as it would be if it built the path and sent the data before
\* reporting that it is not implemented
Update_after_sending ==
    Called /\ \E kwargs \in CallKwargs :
        LET path == _make_path(<<>>, dict_update(defaults, kwargs))
        IN  /\ call' = [NoCall EXCEPT !.op = "update", !.data = "slug=s",
                                      !.kwargs = kwargs]
            /\ sent' = IF path.ok
                        THEN <<Prepare("PUT", path.v, Str("slug=s")).v>>
                        ELSE <<>>
            /\ resp' = NoResp
            /\ outcome' = Raise("NotImplementedError", "")

\* BadgeKitAPI.update(data, **kwargs)
Update ==
    Called /\ \E kwargs \in CallKwargs :
        /\ call' = [NoCall EXCEPT !.op = "update", !.data = "slug=s",
                                  !.kwargs = kwargs]
        /\ sent' = <<>>
        /\ resp' = NoResp
        /\ outcome' = Raise("NotImplementedError", "")

\* BadgeKitAPI.delete(**kwargs)
Delete ==
    Called /\ \E kwargs \in CallKwargs :
        /\ call' = [NoCall EXCEPT !.op = "delete", !.kwargs = kwargs]
        /\ sent' = <<>>
        /\ resp' = NoResp
        /\ outcome' = Raise("NotImplementedError", "")

Next ==
    \/ Ping
    \/ ListObjects
    \/ GetObject
    \/ CreateObject
    \/ Update
    \/ Delete
    \/ ServerVersion
    \/ RequireServerVersion

Spec == Init /\ [][Next]_vars

(* ========================= properties of _make_path ==================== *)

EndsWithStr(s, suffix) ==
    /\ Len(s) >= Len(suffix)
    /\ SubSeq(s, Len(s) - Len(suffix) + 1, Len(s)) = suffix

\* the keyword arguments without the pairs whose name is in names
RECURSIVE Without(_, _)
Without(kw, names) ==
    IF kw = <<>> THEN <<>>
    ELSE (IF kw[1][1] \in names THEN <<>> ELSE <<kw[1]>>)
         \o Without(Tail(kw), names)

MakePathDone == call.op = "_make_path" /\ outcome.k # "none"

MakePathReturned == call.op = "_make_path" /\ outcome.k = "return"

\* the part of a built path before the query string
PathOnly(r) == split(r, "?")[1]

\* the plural names as the API spells them, in hierarchy order
PluralNames == <<"systems", "issuers", "programs", "badges", "instances",
                 "applications", "evidence", "comments", "codes">>

\* positions of _path_order whose segment the caller gave a slug for
PresentSegments(kw) ==
    {i \in 1..Len(_path_order) :
        /\ _path_order[i] \in Keys(kw)
        /\ IsStr(kwargs_get(kw, _path_order[i]))}

\* the names of the segments the caller gave the empty string for
EmptySegments(kw) ==
    {_path_order[i] : i \in {j \in 1..Len(_path_order) :
        /\ _path_order[j] \in Keys(kw)
        /\ kwargs_get(kw, _path_order[j]) = Str("")}}

\* C1: whenever every supplied segment value is a slug or None, the path
\* _make_path returns splits on '/' into the (plural name, slug) pairs of
\* exactly the present segments, in the order system, issuer, program, badge,
\* instance, application, evidence, comment, code and whatever the order of
\* the keyword arguments, followed by the extra positional segments; no
\* component is empty.
C1_FixedHierarchyOrder ==
    (MakePathReturned /\ EmptySegments(call.kwargs) = {}) =>
        LET present == PresentSegments(call.kwargs)
            rank(i) == Cardinality({j \in present : j <= i})
            comps == split(PathOnly(outcome.v.v), "/")
            n == Cardinality(present)
        IN  /\ Len(comps) = 2 * n + Len(call.args)
            /\ \A i \in present :
                  /\ comps[2 * rank(i) - 1] = PluralNames[i]
                  /\ comps[2 * rank(i)] = kwargs_get(call.kwargs, _path_order[i]).v
            /\ \A k \in 1..Len(call.args) : comps[2 * n + k] = call.args[k]
            /\ \A k \in 1..Len(comps) : comps[k] # ""

\* C1 witness: program written before system, issuer absent
C1_Witness ==
    /\ MakePathReturned
    /\ call.args = <<>>
    /\ call.kwargs = <<<<"program", Str("b")>>, <<"system", Str("a")>>>>
    /\ outcome.v = Str("systems/a/programs/b")

\* C3: with archived=True the result is the path followed by
\* "?archived=true", with archived=False by "?archived=false", with a
\* string by "?archived=" and the url-encoded string; with archived absent
\* or None the result has no '?'.
C3_ArchivedFlag ==
    MakePathReturned =>
        LET value == kwargs_get(call.kwargs, "archived")
            r == outcome.v.v
            path == _make_path(call.args, Without(call.kwargs, {"archived"})).v
        IN  /\ ~Contains(path, "?")
            /\ IsNone(value) => r = path
            /\ IsTrue(value) => r = path \o "?archived=true"
            /\ IsFalse(value) => r = path \o "?archived=false"
            /\ IsStr(value) => r = path \o "?archived=" \o quote_plus(value.v)

\* C3 witness: archived=False is rendered, not omitted
C3_Witness ==
    /\ MakePathReturned
    /\ kwargs_get(call.kwargs, "archived") = Bool(FALSE)
    /\ kwargs_get(call.kwargs, "system") = Str("a")
    /\ call.args = <<"badges">>
    /\ outcome.v = Str("systems/a/badges?archived=false")

\* C4: a segment given as the empty string is skipped like an absent one:
\* the result is the result for the same arguments without that segment, and
\* the path has no empty component.
C4_EmptyStringSkipped ==
    MakePathDone =>
        LET r == _make_path(call.args,
                            Without(call.kwargs, EmptySegments(call.kwargs)))
        IN  /\ outcome.k = "return" <=> r.ok
            /\ outcome.k = "return" =>
                  /\ outcome.v.v = r.v
                  /\ \A k \in 1..Len(split(PathOnly(outcome.v.v), "/")) :
                        split(PathOnly(outcome.v.v), "/")[k] # ""

(* ========================= properties of the client ==================== *)

\* the last call was op and it sent a request
Sent(ops) == call.op \in ops /\ sent # <<>>

\* the last call was op, its request was answered and the answer decoded
Answered(ops) ==
    /\ Sent(ops)
    /\ resp.transport = "ok"
    /\ json_loads(resp.text).ok

\* the path and query of the request the last call sent
RequestPathUrl == SubSeq(sent[1].url, origin_len(sent[1].url) + 1, Len(sent[1].url))

\* the plural the claim describes
ClaimedPlural(noun) ==
    IF noun \in {"evidence", "claim", "codes/random"} THEN noun ELSE noun \o "s"

\* C2: the request of list and of create has the plural of kind as its
\* trailing path segment: kind itself for 'evidence', 'claim' and
\* 'codes/random', kind followed by 's' for every other kind.
C2_PluralTrailingSegment ==
    Sent({"list", "create"}) =>
        EndsWithStr(PathOnly(RequestPathUrl), "/" \o ClaimedPlural(call.kind))

\* C2 witness: listing claims asks for .../claim
C2_Witness ==
    /\ Sent({"list"})
    /\ call.kind = "claim"
    /\ defaults = <<>>
    /\ call.kwargs = <<<<"system", Str("b")>>>>
    /\ sent[1].url = "http://example.com/systems/b/claim"

\* the components of the request path that come from hierarchy segments
SegmentComponents ==
    LET path == PathOnly(RequestPathUrl)
        tail == "/" \o ClaimedPlural(call.kind)
    IN  split(IF call.op \in {"list", "create"}
              THEN SubSeq(path, 1, Len(path) - Len(tail))
              ELSE path, "/")

\* the request path holds the plural of segment i followed by slug
HasPair(i, slug) ==
    \E k \in 1..(Len(SegmentComponents) - 1) :
        /\ SegmentComponents[k] = PluralNames[i]
        /\ SegmentComponents[k + 1] = slug

\* C5: in the request of list, get and create every segment has the value
\* the caller gave it, or the default's value when the caller did not name
\* the segment: that slug follows the segment's plural in the path and no
\* other slug does; a segment neither gives (or the caller gives as None) has
\* no pair in the path.
C5_CallerOverridesDefaults ==
    Sent({"list", "get", "create"}) =>
        \A i \in 1..Len(_path_order) :
            LET field == _path_order[i]
                value == IF field \in Keys(call.kwargs)
                         THEN kwargs_get(call.kwargs, field)
                         ELSE kwargs_get(defaults, field)
            IN  \A slug \in Slugs :
                    HasPair(i, slug) <=> (IsStr(value) /\ value.v = slug)

\* C5 witness: system from the caller over the default, badge from the defaults
C5_Witness ==
    /\ Sent({"get"})
    /\ defaults = <<<<"system", Str("a")>>, <<"badge", Str("b")>>>>
    /\ call.kwargs = <<<<"system", Str("b")>>>>
    /\ sent[1].url = "http://example.com/systems/b/badges/b"

\* the status the claim names as the success of the last call
ClaimedSuccess == IF call.op = "create" THEN 201 ELSE 200

\* C6: list and get return the decoded body exactly when the body decodes
\* and the status is 200, create exactly when it decodes and the status is
\* 201; in every other case the call raises.
C6_SuccessStatus ==
    call.op \in {"list", "get", "create"} =>
        /\ outcome.k \in {"return", "raise"}
        /\ outcome.k = "return" <=>
              (Answered({call.op}) /\ resp.status = ClaimedSuccess)
        /\ outcome.k = "return" => outcome.v = json_loads(resp.text).v

\* C6 witness: create answered 200 with a decodable body fails
C6_Witness ==
    /\ Answered({"create"})
    /\ resp.status = 200
    /\ outcome.k = "raise"

\* C7: when the status is not the expected one, a decoded body with a
\* recognized code and a message raises the exception of that code, holding
\* the body and the request; every other decoded body raises APIError naming
\* the method, the URL and the body.
C7_ErrorClassification ==
    (Answered({"list", "get", "create"}) /\ resp.status # ClaimedSuccess) =>
        LET body == json_loads(resp.text).v
            typed == /\ IsDict(body)
                     /\ {"code", "message"} \subseteq DOMAIN body.v
                     /\ body.v["code"] \in {"ResourceNotFound", "ResourceConflict",
                                            "ValidationError"}
        IN  /\ outcome.k = "raise"
            /\ typed => /\ outcome.exc = body.v["code"]
                        /\ outcome.info = body
                        /\ outcome.request = sent[1]
            /\ ~typed => /\ outcome.exc = "APIError"
                         /\ outcome.fmt = <<sent[1].method, sent[1].url, body>>

\* C7 witness: a recognized code without a message is a generic APIError
C7_Witness ==
    /\ Answered({"get"})
    /\ resp.status = 404
    /\ resp.text = "{\"code\": \"ResourceNotFound\"}"
    /\ outcome.k = "raise"
    /\ outcome.exc = "APIError"

\* C8: a body that is not JSON makes list, get, create and server_version
\* raise APIError('Invalid JSON in BadgeKit response') whatever the status.
C8_InvalidJson ==
    (/\ Sent({"list", "get", "create", "server_version"})
     /\ resp.transport = "ok"
     /\ ~json_loads(resp.text).ok) =>
        /\ outcome.k = "raise"
        /\ outcome.exc = "APIError"
        /\ outcome.msg = "Invalid JSON in BadgeKit response"

\* C8 witness: create answered 201 with a body that is not JSON
C8_Witness ==
    /\ Sent({"create"})
    /\ resp.transport = "ok"
    /\ resp.status = 201
    /\ resp.text = InvalidText
    /\ outcome.k = "raise"
    /\ outcome.exc = "APIError"

\* C9: ping returns True only when the request was answered with status 200
\* and a body whose app is 'BadgeKit API'; a ConnectionError makes it return
\* False.
C9_Ping ==
    call.op = "ping" =>
        /\ (outcome.k = "return" /\ IsTrue(outcome.v)) =>
              /\ Answered({"ping"})
              /\ resp.status = 200
              /\ HasKey(json_loads(resp.text).v, "app")
              /\ json_loads(resp.text).v.v["app"] = "BadgeKit API"
        /\ resp.transport = "ConnectionError" =>
              /\ outcome.k = "return"
              /\ IsFalse(outcome.v)

\* C9 witness: the connection fails and ping returns False
C9_Witness ==
    /\ call.op = "ping"
    /\ resp.transport = "ConnectionError"
    /\ outcome.k = "return"
    /\ IsFalse(outcome.v)

\* the last call was require_server_version, the server reported a version
\* and both versions are dot-separated numbers
NumericVersions ==
    /\ Answered({"require_server_version"})
    /\ HasKey(json_loads(resp.text).v, "version")
    /\ \A s \in {json_loads(resp.text).v.v["version"], call.required} :
          \A i \in 1..Len(split(s, ".")) : AllDigits(split(s, ".")[i])

ReportedVersion == json_loads(resp.text).v.v["version"]

\* the numeric components of a version, a missing one counting as zero
Components(s) ==
    [i \in 1..3 |-> IF i <= Len(split(s, ".")) THEN to_int(split(s, ".")[i])
                    ELSE 0]

\* x is strictly less than y, comparing components left to right
StrictlyLess(x, y) ==
    \E i \in 1..3 : x[i] < y[i] /\ \A j \in 1..(i - 1) : x[j] = y[j]

\* C10 as stated: require_server_version fails exactly when the reported
\* version is strictly less than the required one, missing components
\* counting as zero.
C10_FailsIffOlder ==
    NumericVersions =>
        (outcome.k = "raise" <=>
            StrictlyLess(Components(ReportedVersion), Components(call.required)))

\* the version has two or three components
WellFormed(s) == Len(split(s, ".")) \in {2, 3}

\* C10 amended: between versions of two or three numeric components,
\* require_server_version fails exactly when the reported version is strictly
\* less than the required one, a missing third component counting as zero;
\* a version of any other number of components makes it fail.
C10_FailsIffOlderWellFormed ==
    NumericVersions =>
        IF WellFormed(ReportedVersion) /\ WellFormed(call.required)
        THEN outcome.k = "raise" <=>
                StrictlyLess(Components(ReportedVersion), Components(call.required))
        ELSE outcome.k = "raise"

\* C10 witness: 0.2.9 fails a requirement of 0.3.0
C10_Witness ==
    /\ NumericVersions
    /\ ReportedVersion = "0.2.9"
    /\ call.required = "0.3.0"
    /\ outcome.k = "raise"
    /\ outcome.exc = "ValueError"

\* C14: update and delete raise NotImplementedError whatever their
\* arguments, and send no request.
C14_NotImplemented ==
    call.op \in {"update", "delete"} =>
        /\ outcome.k = "raise"
        /\ outcome.exc = "NotImplementedError"
        /\ sent = <<>>
        /\ resp = NoResp

\* C14 witness: update called with a location that list could have used
C14_Witness ==
    /\ call.op = "update"
    /\ call.kwargs = <<<<"system", Str("b")>>>>
    /\ outcome.k = "raise"
    /\ outcome.exc = "NotImplementedError"
    /\ sent = <<>>

(* ========================= properties of the signer ==================== *)

\* the signer was applied to the outgoing request
SignDone == call.op = "__call__" /\ outcome.k # "none"

\* the signer was applied and returned the request
Signed == call.op = "__call__" /\ outcome.k = "return"

\* the token in the Authorization header of the outgoing request
SignedToken == outgoing.headers["Authorization"].token

\* the claims segment of that token, decoded without verification
SignedPayload == jws_decode(SignedToken[2])

\* the path and the query of a URL, as the claims describe the path claim
PathAndQuery(url) ==
    LET rest == SubSeq(url, origin_len(url) + 1, Len(url))
    IN  IF rest = "" THEN "/" ELSE rest

\* the value the claims give the registered field f for the outgoing request
ClaimedValue(f) ==
    LET gen == auth.generators[f]
    IN  CASE gen.callable = "" -> gen.value
          [] gen.callable = "payload_method" -> Str(outgoing.method)
          [] gen.callable = "payload_path" -> Str(PathAndQuery(outgoing.url))
          [] gen.callable = "payload_body" ->
                IF outgoing.method \in {"POST", "PUT"}
                THEN Dict([hash |-> sha256_hexdigest(outgoing.body.v),
                           alg  |-> "sha256"])
                ELSE None
          [] gen.callable = "expire" -> Str(to_str(now + gen.secs))

NonFalsy(value) == ~IsNone(value) /\ (IsStr(value) => value.v # "")

\* the payload of the token holds exactly the registered fields whose
\* claimed value is non-falsy, each with that value, and a body field for
\* POST and PUT only
PayloadAsClaimed ==
    /\ DOMAIN SignedPayload =
          {f \in DOMAIN auth.generators : NonFalsy(ClaimedValue(f))}
    /\ \A f \in DOMAIN SignedPayload : SignedPayload[f] = ClaimedValue(f)
    /\ \A f \in DOMAIN auth.generators :
          auth.generators[f].callable = "payload_body" =>
              (f \in DOMAIN SignedPayload
                  <=> outgoing.method \in {"POST", "PUT"})

\* C11: signing any request builds a payload that holds exactly the
\* registered fields whose value (the constant, or the generator applied to
\* the request) is non-falsy, each with that value; the body field, the
\* hash of the body tagged 'sha256', is there for POST and PUT and for no
\* other verb.
C11_PayloadOmitsFalsy == SignDone => (outcome.k = "return" /\ PayloadAsClaimed)

\* C11 for the requests the signer returns: their payload is the one C11
\* describes (a POST or PUT without a body is not returned).
C11_PayloadOmitsFalsyWhenSigned == Signed => PayloadAsClaimed

\* keys a verifier may try
VerifierKeys == Secrets \cup {""}

OtherHeaders(req) == DOMAIN req.headers \ {"Authorization"}

\* C16: applying the signer sets the Authorization header of the request to
\* 'JWT token="<header>.<claims>.<signature>"' and changes nothing else: the
\* method, the URL with its query, the body and the other headers are as
\* before, and so are the signer's secret, algorithm and generators; a request
\* the signer fails on is left as it was.
C16_OnlyAuthorizationSet ==
    [][ /\ auth' = auth
        /\ outcome'.k = "raise" => outgoing' = outgoing
        /\ outcome'.k = "return" =>
              /\ outgoing'.method = outgoing.method
              /\ outgoing'.url = outgoing.url
              /\ outgoing'.body = outgoing.body
              /\ OtherHeaders(outgoing') = OtherHeaders(outgoing)
              /\ \A h \in OtherHeaders(outgoing) :
                    outgoing'.headers[h] = outgoing.headers[h]
              /\ "Authorization" \in DOMAIN outgoing'.headers
              /\ outgoing'.headers["Authorization"].format = "JWT token=\"%s\""
              /\ Len(outgoing'.headers["Authorization"].token) = 3
              /\ outgoing'.headers["Authorization"].token[1] =
                    jws_encode([typ |-> "JWT", alg |-> auth.alg])
              /\ outgoing'.headers["Authorization"].token[3] =
                    jws_sign([typ |-> "JWT", alg |-> auth.alg],
                             jws_decode(outgoing'.headers["Authorization"].token[2]),
                             auth.secret)
      ]_vars

\* C16 witness: a signed PUT that still has its body and its Accept header
C16_Witness ==
    /\ Signed
    /\ outgoing.method = "PUT"
    /\ outgoing.body = Str("a=b")
    /\ DOMAIN outgoing.headers = {"Accept", "Authorization"}
    /\ outgoing.headers["Accept"] = Str("*/*")
    /\ outgoing.url = "http://example.com/systems/a/badges?archived=true"

(* ================== properties of the requests of the client =========== *)

\* the claims in the token of a request the client sent
ClaimsOf(req) == jws_decode(req.headers["Authorization"].token[2])

\* the scheme and host of the client's base URL
Origin == SubSeq(baseurl, 1, origin_len(baseurl))

\* C13: every request the client sends carries a token that verifies under
\* the client's secret, whose method claim is the verb of the request and
\* whose path claim is its path together with its query string: the claim
\* after the scheme and host is the URL, so requests that differ in a query
\* parameter, as archived=true against archived=false, carry different path
\* claims.
C13_PathAndMethodSigned ==
    \A i \in 1..Len(sent) :
        /\ from_jwt(sent[i].headers["Authorization"].token, auth.secret).ok
        /\ ClaimsOf(sent[i])["method"] = Str(sent[i].method)
        /\ ClaimsOf(sent[i])["path"] = Str(PathAndQuery(sent[i].url))
        /\ sent[i].url = Origin \o ClaimsOf(sent[i])["path"].v
        /\ (call.op \in {"list", "get", "create"}
              /\ IsBool(kwargs_get(call.kwargs, "archived"))) =>
                 EndsWithStr(ClaimsOf(sent[i])["path"].v,
                             IF IsTrue(kwargs_get(call.kwargs, "archived"))
                             THEN "?archived=true" ELSE "?archived=false")

\* C13 witness: a list of archived badges, whose path claim ends with the
\* query
C13_Witness ==
    /\ call.op = "list"
    /\ sent # <<>>
    /\ sent[1].method = "GET"
    /\ ClaimsOf(sent[1])["method"] = Str("GET")
    /\ ClaimsOf(sent[1])["path"] = Str("/systems/a/badges?archived=true")

\* the operations that talk to the server
RequestingOps ==
    {"ping", "list", "get", "create", "server_version", "require_server_version"}

\* a failure of the last call's round trip reached the caller: a transport
\* failure raises the transport's exception, except the connection failure
\* ping turns into False; a body that does not decode raises APIError; a
\* status list, get or create does not expect raises
FailureSurfaces ==
    /\ resp.transport \in TransportFailures =>
          IF call.op = "ping" /\ resp.transport = "ConnectionError"
          THEN outcome = Return(Bool(FALSE))
          ELSE outcome.k = "raise" /\ outcome.exc = resp.transport
    /\ (resp.transport = "ok" /\ ~json_loads(resp.text).ok) =>
          outcome.k = "raise" /\ outcome.exc = "APIError"
    /\ (resp.transport = "ok" /\ call.op \in {"list", "get", "create"}
          /\ resp.status # ClaimedSuccess) => outcome.k = "raise"

EffectiveValue(field) ==
    IF field \in Keys(call.kwargs) THEN kwargs_get(call.kwargs, field)
    ELSE kwargs_get(defaults, field)

\* the last call could not build or sign its request: get was left without
\* any hierarchy segment, or create had no data to hash
NothingToSend ==
    \/ /\ call.op = "get"
       /\ \A i \in 1..Len(_path_order) : IsNone(EffectiveValue(_path_order[i]))
    \/ /\ call.op = "create"
       /\ call.data = ""

IsSlug(value, slug) == IsStr(value) /\ value.v = slug

\* the URL holds the component plural followed by the component slug
HasSegment(url, plural, slug) ==
    LET pair == "/" \o plural \o "/" \o slug
    IN  \E k \in 1..(Len(url) - Len(pair) + 1) :
            /\ SubSeq(url, k, k + Len(pair) - 1) = pair
            /\ \/ k + Len(pair) - 1 = Len(url)
               \/ SubSeq(url, k + Len(pair), k + Len(pair)) \in {"/", "?"}

\* C17: no call assigns the base URL, the defaults or the signer and its
\* registrations, so they stay as constructed; and a slug the previous call
\* was given for a hierarchy field does not appear for that field in the path
\* of a following call that does not supply the field, unless it is the
\* default's.
C17_ConstructionStateKept ==
    [][ /\ baseurl' = baseurl
        /\ defaults' = defaults
        /\ auth' = auth
        /\ \A i \in 1..Len(_path_order), slug \in Slugs :
              ( /\ IsSlug(kwargs_get(call.kwargs, _path_order[i]), slug)
                /\ _path_order[i] \notin Keys(call'.kwargs)
                /\ ~IsSlug(kwargs_get(defaults, _path_order[i]), slug)
                /\ call'.op \in {"list", "get", "create"}
                /\ sent' # <<>> )
              => ~HasSegment(sent'[1].url, PluralNames[i], slug)
      ]_vars

\* C17 witness: a second call, a get without arguments, asks for the object
\* of the defaults
C17_Witness ==
    /\ now = Epoch + 2
    /\ call.op = "get"
    /\ call.kwargs = <<>>
    /\ defaults = <<<<"system", Str("a")>>, <<"badge", Str("b")>>>>
    /\ sent # <<>>
    /\ sent[1].url = "http://example.com/systems/a/badges/b"
    /\ auth.generators["key"] = Const(Str("master"))

====
